---------------------------- MODULE Spec2Model ----------------------------
(***************************************************************************)
(* RabbitMQ queue segment recovery: a model of the two recovery scripts,   *)
(*   strategy "A"  src/rabbitmq_recovery.py      (exact binary markers)    *)
(*   strategy "B"  src/recovery_improved_json.py (entry headers + terms)   *)
(* Bytes are integers 0..255, a bytes object is a sequence of them, a str  *)
(* is a sequence of code points.  Python's 0-based indices are kept: the   *)
(* operators At and Slice translate them to TLA+'s 1-based sequences.      *)
(***************************************************************************)
EXTENDS Integers, Sequences, FiniteSets, TLC

VARIABLES
    config,             \* argparse namespace: dry_run, file_limit, message_limit, strategy
    listing,            \* os.listdir(directory): the file names, in listing order
    disk,               \* file name -> content (a sequence of bytes, or Unreadable)
    pc,                 \* position of the process
    connected,          \* self.connection exists
    qs_files,           \* self.qs_files
    fidx,               \* 0-based position of the for loop of process_files
    file_data,          \* the bytes scanned by the current extraction (A: data = file_data[64:])
    pos,                \* B: cursor of the entry loop; A: index into start_positions
    start_positions,    \* A: positions of the start marker
    end_positions,      \* A: positions of the end marker
    messages_published, \* local counter of the current extraction
    total_published,    \* local counter of process_files
    sink,               \* messages the broker accepted (basic_publish returned), all runs
    recovered,          \* content_str of every message that reached the publish step, this run
    opened,             \* file names handed to open(), this run, in order
    hiRead,             \* highest byte index the last entry-loop iteration read (-1: none)
    bodyLen,            \* length of the body slice the last entry-loop iteration took (-1: none)
    connects,           \* calls of connect_to_rabbitmq, all runs
    pubCalls,           \* calls of channel.basic_publish, all runs
    failures,           \* basic_publish calls that raised, this run
    reports,            \* one record per finished run: what process_files printed
    fn_in,              \* argument of the pure function under check
    fn_out              \* its result

vars == << config, listing, disk, pc, connected, qs_files, fidx, file_data, pos,
           start_positions, end_positions, messages_published, total_published,
           sink, recovered, opened, hiRead, bodyLen, connects, pubCalls, failures,
           reports, fn_in, fn_out >>

---------------------------------------------------------------------------
(* Python sequence primitives *)

Min(a, b) == IF a < b THEN a ELSE b
Max(a, b) == IF a > b THEN a ELSE b

\* data[i], 0-based
At(s, i) == s[i + 1]

\* data[a:b] for 0 <= a, 0 <= b: clamped to the length, empty when a >= b
Slice(s, a, b) == SubSeq(s, a + 1, Min(b, Len(s)))

\* data[a:]
From(s, a) == SubSeq(s, a + 1, Len(s))

\* n copies of x
Rep(x, n) == [i \in 1..n |-> x]

\* The least and the greatest element of a non-empty set of integers
Least(S) == CHOOSE x \in S : \A y \in S : x <= y
Greatest(S) == CHOOSE x \in S : \A y \in S : x >= y

\* data.find(byte, start): lowest index >= start holding the byte, -1 if none
Find(s, b, start) ==
    LET hits == {i \in start..(Len(s) - 1) : At(s, i) = b}
    IN  IF hits = {} THEN -1 ELSE Least(hits)

\* data.rfind(byte): highest index holding the byte, -1 if none
RFind(s, b) ==
    LET hits == {i \in 0..(Len(s) - 1) : At(s, i) = b}
    IN  IF hits = {} THEN -1 ELSE Greatest(hits)

\* data.rfind(two bytes, lo, hi): highest i with lo <= i, i + 2 <= hi and data[i:i+2] = b1 b2
RFind2(s, b1, b2, lo, hi) ==
    LET hits == {i \in lo..(Min(hi, Len(s)) - 2) : At(s, i) = b1 /\ At(s, i + 1) = b2}
    IN  IF hits = {} THEN -1 ELSE Greatest(hits)

\* int.from_bytes(s, byteorder='big') of at most 4 bytes.  Model-checker
\* integers are 32-bit: a value of 2^31 or more is represented by 2^31 - 1.
\* The code compares every such value with a limit far below (10 MiB, 1 MiB)
\* before it computes with it, so the representation decides nothing.
INT_MAX == 2147483647

RECURSIVE BigEndian(_)
BigEndian(s) ==
    IF Len(s) = 0 THEN 0
    ELSE BigEndian(SubSeq(s, 1, Len(s) - 1)) * 256 + s[Len(s)]

FromBytesBig(s) ==
    IF Len(s) = 4 /\ s[1] >= 128 THEN INT_MAX ELSE BigEndian(s)

---------------------------------------------------------------------------
(* Byte and character classes *)

LBRACE == 123
RBRACE == 125
QUOTE == 34
BACKSLASH == 92
LT == 60
GT == 62
TERM_MARKER == 131
BINARY_EXT == 109
END_TAG == 116
LETTER_J == 106
HEADER_LEN == 64
ENTRY_HEADER_LEN == 8
MAX_ENTRY_SIZE == 10485760
MIN_BINARY_LEN == 10
MAX_BINARY_LEN == 1048576
MIN_CONTENT_LEN == 10

\* 32 <= b <= 126
PrintableByte(b) == 32 <= b /\ b <= 126

\* bytes.strip(): ASCII whitespace
ByteSpace(b) == b \in {32, 9, 10, 13, 11, 12}

\* str.isprintable() of one character.  Exact for U+0000..U+00FF; the model's
\* inputs decode to no character above U+00FF.
IsPrintable(c) ==
    \/ 32 <= c /\ c <= 126
    \/ 161 <= c /\ c <= 255 /\ c # 173
    \/ c > 255

\* str.isalnum() of one character, exact for U+0000..U+00FF
IsAlnum(c) ==
    \/ 48 <= c /\ c <= 57
    \/ 65 <= c /\ c <= 90
    \/ 97 <= c /\ c <= 122
    \/ c \in {170, 178, 179, 181, 185, 186, 188, 189, 190}
    \/ 192 <= c /\ c <= 255 /\ c # 215 /\ c # 247

\* str.strip(): Unicode whitespace, exact for U+0000..U+00FF
StrSpace(c) == c \in {9, 10, 11, 12, 13, 28, 29, 30, 31, 32, 133, 160}

\* c.isprintable() or c in '\n\r\t'
PrintableOrNl(c) == IsPrintable(c) \/ c \in {10, 13, 9}

---------------------------------------------------------------------------
(* UTF-8: bytes.decode('utf-8', errors=...) and str.encode('utf-8') *)

Cont(b) == 128 <= b /\ b <= 191

\* Number of bytes of the well-formed UTF-8 sequence that starts at index i,
\* 0 if none starts there.
Utf8Len(s, i) ==
    LET n  == Len(s)
        b0 == At(s, i)
    IN  IF b0 < 128 THEN 1
        ELSE IF 194 <= b0 /\ b0 <= 223
            THEN IF i + 1 < n /\ Cont(At(s, i + 1)) THEN 2 ELSE 0
        ELSE IF 224 <= b0 /\ b0 <= 239
            THEN IF /\ i + 2 < n
                    /\ Cont(At(s, i + 1))
                    /\ Cont(At(s, i + 2))
                    /\ (b0 = 224 => At(s, i + 1) >= 160)
                    /\ (b0 = 237 => At(s, i + 1) <= 159)
                 THEN 3 ELSE 0
        ELSE IF 240 <= b0 /\ b0 <= 244
            THEN IF /\ i + 3 < n
                    /\ Cont(At(s, i + 1))
                    /\ Cont(At(s, i + 2))
                    /\ Cont(At(s, i + 3))
                    /\ (b0 = 240 => At(s, i + 1) >= 144)
                    /\ (b0 = 244 => At(s, i + 1) <= 143)
                 THEN 4 ELSE 0
        ELSE 0

\* The code point of the well-formed sequence of k bytes at index i
Utf8CodePoint(s, i, k) ==
    CASE k = 1 -> At(s, i)
      [] k = 2 -> (At(s, i) - 192) * 64 + (At(s, i + 1) - 128)
      [] k = 3 -> (At(s, i) - 224) * 4096 + (At(s, i + 1) - 128) * 64
                  + (At(s, i + 2) - 128)
      [] k = 4 -> (At(s, i) - 240) * 262144 + (At(s, i + 1) - 128) * 4096
                  + (At(s, i + 2) - 128) * 64 + (At(s, i + 3) - 128)

\* decode from index i on.  strict: the first ill-formed byte raises
\* UnicodeDecodeError (ok = FALSE); ignore: it is dropped.
RECURSIVE DecodeFrom(_, _, _)
DecodeFrom(s, i, strict) ==
    IF i >= Len(s) THEN [ok |-> TRUE, str |-> << >>]
    ELSE LET k == Utf8Len(s, i)
         IN  IF k = 0
             THEN IF strict THEN [ok |-> FALSE, str |-> << >>]
                  ELSE DecodeFrom(s, i + 1, strict)
             ELSE LET rest == DecodeFrom(s, i + k, strict)
                  IN  [ok |-> rest.ok,
                       str |-> IF rest.ok
                               THEN << Utf8CodePoint(s, i, k) >> \o rest.str
                               ELSE << >>]

DecodeStrict(s) == DecodeFrom(s, 0, TRUE)
DecodeIgnore(s) == DecodeFrom(s, 0, FALSE).str

\* Length of the ill-formed subsequence at index i that errors='replace' turns
\* into one U+FFFD: the lead byte and the continuation bytes that were still valid
BadLen(s, i) ==
    LET n  == Len(s)
        b0 == At(s, i)
        second_ok ==
            /\ i + 1 < n
            /\ Cont(At(s, i + 1))
            /\ (b0 = 224 => At(s, i + 1) >= 160)
            /\ (b0 = 237 => At(s, i + 1) <= 159)
            /\ (b0 = 240 => At(s, i + 1) >= 144)
            /\ (b0 = 244 => At(s, i + 1) <= 143)
        third_ok == i + 2 < n /\ Cont(At(s, i + 2))
    IN  IF 224 <= b0 /\ b0 <= 239
            THEN IF second_ok THEN 2 ELSE 1
        ELSE IF 240 <= b0 /\ b0 <= 244
            THEN IF ~second_ok THEN 1 ELSE IF third_ok THEN 3 ELSE 2
        ELSE 1

REPLACEMENT_CHAR == 65533

\* bytes.decode('utf-8', errors='replace')
RECURSIVE DecodeReplaceFrom(_, _)
DecodeReplaceFrom(s, i) ==
    IF i >= Len(s) THEN << >>
    ELSE LET k == Utf8Len(s, i)
         IN  IF k = 0
             THEN << REPLACEMENT_CHAR >> \o DecodeReplaceFrom(s, i + BadLen(s, i))
             ELSE << Utf8CodePoint(s, i, k) >> \o DecodeReplaceFrom(s, i + k)

DecodeReplace(s) == DecodeReplaceFrom(s, 0)

EncodeChar(c) ==
    IF c < 128 THEN << c >>
    ELSE IF c < 2048 THEN << 192 + (c \div 64), 128 + (c % 64) >>
    ELSE IF c < 65536
        THEN << 224 + (c \div 4096), 128 + ((c \div 64) % 64), 128 + (c % 64) >>
    ELSE << 240 + (c \div 262144), 128 + ((c \div 4096) % 64),
            128 + ((c \div 64) % 64), 128 + (c % 64) >>

RECURSIVE Encode(_)
Encode(str) ==
    IF Len(str) = 0 THEN << >> ELSE EncodeChar(Head(str)) \o Encode(Tail(str))

---------------------------------------------------------------------------
(* ContentSanitizer: find_json_end, clean_message_content *)

\* The for loop of find_json_end from index i with the loop's three locals
RECURSIVE JsonEndLoop(_, _, _, _, _)
RECURSIVE JsonEndLoop_NoEscape(_, _, _, _, _)
\* The scan without the escape flag: every quote toggles the string state
JsonEndLoop_NoEscape(data, i, depth, in_string, escape) ==
    IF i >= Len(data) THEN Len(data)
    ELSE LET byte == At(data, i)
         IN  IF byte = QUOTE
                 THEN JsonEndLoop_NoEscape(data, i + 1, depth, ~in_string, FALSE)
             ELSE IF ~in_string /\ byte = LBRACE
                 THEN JsonEndLoop_NoEscape(data, i + 1, depth + 1, in_string, FALSE)
             ELSE IF ~in_string /\ byte = RBRACE
                 THEN IF depth - 1 = 0 THEN i + 1
                      ELSE JsonEndLoop_NoEscape(data, i + 1, depth - 1, in_string, FALSE)
             ELSE JsonEndLoop_NoEscape(data, i + 1, depth, in_string, FALSE)

JsonEndLoop(data, i, depth, in_string, escape) ==
    IF i >= Len(data) THEN Len(data)
    ELSE LET byte == At(data, i)
         IN  IF escape
                 THEN JsonEndLoop(data, i + 1, depth, in_string, FALSE)
             ELSE IF byte = BACKSLASH /\ in_string
                 THEN JsonEndLoop(data, i + 1, depth, in_string, TRUE)
             ELSE IF byte = QUOTE
                 THEN JsonEndLoop(data, i + 1, depth, ~in_string, FALSE)
             ELSE IF ~in_string /\ byte = LBRACE
                 THEN JsonEndLoop(data, i + 1, depth + 1, in_string, FALSE)
             ELSE IF ~in_string /\ byte = RBRACE
                 THEN IF depth - 1 = 0 THEN i + 1
                      ELSE JsonEndLoop(data, i + 1, depth - 1, in_string, FALSE)
             ELSE JsonEndLoop(data, i + 1, depth, in_string, FALSE)

find_json_end(data, start) == JsonEndLoop(data, start, 0, FALSE, FALSE)

\* bytes.strip()
BytesStrip(s) ==
    LET keep == {i \in 0..(Len(s) - 1) : ~ByteSpace(At(s, i))}
    IN  IF keep = {} THEN << >> ELSE Slice(s, Least(keep), Greatest(keep) + 1)

\* The backward for loop of strategy 3: index after the last character that
\* is printable or one of \n \r \t; len(decoded) if there is none
PrintableEnd(decoded) ==
    LET hits == {i \in 0..(Len(decoded) - 1) : PrintableOrNl(At(decoded, i))}
    IN  IF hits = {} THEN Len(decoded) ELSE Greatest(hits) + 1

\* Strategy 3 of clean_message_content: plain text
CleanPlain(raw_content) ==
    LET stripped == BytesStrip(raw_content)
        tail     == From(stripped, Max(0, Len(stripped) - 20))
        content  == IF RFind2(tail, LETTER_J, END_TAG, 0, Len(tail)) >= 0
                    THEN Slice(stripped, 0,
                               RFind2(stripped, LETTER_J, END_TAG, 0, Len(stripped)))
                    ELSE stripped
        decoded  == DecodeIgnore(content)
    IN  Encode(Slice(decoded, 0, PrintableEnd(decoded)))

\* Strategy 2 without "if xml_end > xml_start": always the slice
CleanXml_AlwaysSlice(raw_content) ==
    LET xml_start == Find(raw_content, LT, 0)
        xml_end   == RFind(raw_content, GT)
    IN  IF xml_start >= 0
        THEN Slice(raw_content, xml_start, Max(xml_start, xml_end + 1))
        ELSE CleanPlain(raw_content)

\* Strategy 2 and on: XML, else plain text
CleanXml(raw_content) ==
    LET xml_start == Find(raw_content, LT, 0)
        xml_end   == RFind(raw_content, GT)
    IN  IF xml_start >= 0 /\ xml_end > xml_start
        THEN Slice(raw_content, xml_start, xml_end + 1)
        ELSE CleanPlain(raw_content)

clean_message_content(raw_content) ==
    LET json_start == Find(raw_content, LBRACE, 0)
        json_end   == find_json_end(raw_content, json_start)
    IN  IF json_start >= 0 /\ json_end > json_start
        THEN Slice(raw_content, json_start, json_end)
        ELSE CleanXml(raw_content)

---------------------------------------------------------------------------
(* TermPayloadExtractor: extract_payload_from_erlang *)

\* sum(1 for b in binary_data[:100] if 32 <= b <= 126)
CountPrintableBytes(s, hi) ==
    Cardinality({i \in 0..(hi - 1) : PrintableByte(At(s, i))})

PRINTABLE_WINDOW == 100
PRINTABLE_MIN == 10

\* binary_data passes the "looks like content" heuristic
LooksLikeContent(binary_data) ==
    CountPrintableBytes(binary_data, Min(PRINTABLE_WINDOW, Len(binary_data)))
        > PRINTABLE_MIN

\* A BINARY_EXT candidate starts at index p: tag, 4-byte length in range, body fits
IsCandidate(data, p) ==
    /\ At(data, p) = BINARY_EXT
    /\ p + 5 <= Len(data)
    /\ LET length == FromBytesBig(Slice(data, p + 1, p + 5))
       IN  /\ MIN_BINARY_LEN <= length
           /\ length <= MAX_BINARY_LEN
           /\ p + 5 + length <= Len(data)

CandidateLen(data, p) == FromBytesBig(Slice(data, p + 1, p + 5))

CandidateBody(data, p) == Slice(data, p + 5, p + 5 + CandidateLen(data, p))

\* The replacement test without the length comparison: the last one wins
KeepLargest_Last(largest_binary, binary_data) ==
    IF LooksLikeContent(binary_data) THEN binary_data ELSE largest_binary

\* if len(binary_data) > len(largest_binary) and it looks like content: replace
KeepLargest(largest_binary, binary_data) ==
    IF Len(binary_data) > Len(largest_binary) /\ LooksLikeContent(binary_data)
    THEN binary_data
    ELSE largest_binary

\* The while loop of extract_payload_from_erlang from index p
RECURSIVE PayloadLoop(_, _, _)
PayloadLoop(data, p, largest_binary) ==
    IF ~(p < Len(data) - 5) THEN largest_binary
    ELSE IF IsCandidate(data, p)
        THEN PayloadLoop(data, p + 5 + CandidateLen(data, p),
                         KeepLargest(largest_binary, CandidateBody(data, p)))
    ELSE PayloadLoop(data, p + 1, largest_binary)

extract_payload_from_erlang(data) == PayloadLoop(data, 0, << >>)

\* The positions at which the while loop, started at index p, takes the
\* BINARY_EXT branch and slices a body
RECURSIVE ScanVisits(_, _)
ScanVisits(data, p) ==
    IF ~(p < Len(data) - 5) THEN {}
    ELSE IF IsCandidate(data, p)
        THEN {p} \cup ScanVisits(data, p + 5 + CandidateLen(data, p))
    ELSE ScanVisits(data, p + 1)

---------------------------------------------------------------------------
(* ContentValidator: is_valid_content *)

VALID_WINDOW == 200
BASE64_MIN_LEN == 100

CountPrintableChars(s, hi) ==
    Cardinality({i \in 0..(hi - 1) : PrintableOrNl(At(s, i))})

\* str.strip()
StrStrip(s) ==
    LET keep == {i \in 0..(Len(s) - 1) : ~StrSpace(At(s, i))}
    IN  IF keep = {} THEN << >> ELSE Slice(s, Least(keep), Greatest(keep) + 1)

\* The alphanumeric test without strip()
StrippedIsAlnum_NoStrip(content) ==
    /\ \E i \in 1..Len(content) : content[i] \notin {10, 13}
    /\ \A i \in 1..Len(content) : content[i] \in {10, 13} \/ IsAlnum(content[i])

\* content.strip().replace('\n', '').replace('\r', '').isalnum():
\* non-empty after the removals, and every remaining character alphanumeric
StrippedIsAlnum(content) ==
    LET t == StrStrip(content)
    IN  /\ \E i \in 1..Len(t) : t[i] \notin {10, 13}
        /\ \A i \in 1..Len(t) : t[i] \in {10, 13} \/ IsAlnum(t[i])

\* printable < len(content[:200]) * 0.7; for every length 1..200 the float
\* product rounds so that the comparison agrees with 10 * printable < 7 * len
TooFewPrintable(content) ==
    LET n == Min(VALID_WINDOW, Len(content))
    IN  10 * CountPrintableChars(content, n) < 7 * n

\* is_valid_content without the minimum length
is_valid_content_NoMinLen(content) ==
    IF TooFewPrintable(content) THEN FALSE
    ELSE IF StrippedIsAlnum(content) /\ Len(content) > BASE64_MIN_LEN THEN FALSE
    ELSE TRUE

is_valid_content(content) ==
    IF Len(content) < MIN_CONTENT_LEN THEN FALSE
    ELSE IF TooFewPrintable(content) THEN FALSE
    ELSE IF StrippedIsAlnum(content) /\ Len(content) > BASE64_MIN_LEN THEN FALSE
    ELSE TRUE

---------------------------------------------------------------------------
(* SegmentCatalog: scan_files.  A file name is a sequence of characters. *)

DOT == 46
QS_SUFFIX == << 46, 113, 115 >>

\* filename.endswith('.qs')
EndsWithQs(name) ==
    Len(name) >= 3 /\ SubSeq(name, Len(name) - 2, Len(name)) = QS_SUFFIX

\* os.path.basename(f).split('.')[0]: the characters before the first '.'
NamePrefix(name) ==
    LET dot == Find(name, DOT, 0)
    IN  IF dot < 0 THEN name ELSE Slice(name, 0, dot)

IsDigit(c) == 48 <= c /\ c <= 57

\* The digits of an int() literal, sign and surrounding whitespace removed
IntBody(str) ==
    LET t == StrStrip(str)
    IN  IF Len(t) > 0 /\ t[1] \in {43, 45} THEN Tail(t) ELSE t

\* int(str) does not raise ValueError: digits, single underscores between them
IntParses(str) ==
    LET b == IntBody(str)
    IN  /\ Len(b) > 0
        /\ \A i \in 1..Len(b) : IsDigit(b[i]) \/ b[i] = 95
        /\ IsDigit(b[1]) /\ IsDigit(b[Len(b)])
        /\ \A i \in 1..(Len(b) - 1) : ~(b[i] = 95 /\ b[i + 1] = 95)

RECURSIVE DigitsValue(_)
DigitsValue(b) ==
    IF Len(b) = 0 THEN 0
    ELSE IF b[Len(b)] = 95 THEN DigitsValue(SubSeq(b, 1, Len(b) - 1))
    ELSE DigitsValue(SubSeq(b, 1, Len(b) - 1)) * 10 + (b[Len(b)] - 48)

\* int(str), for a str that parses
IntValue(str) ==
    LET t == StrStrip(str)
    IN  IF t[1] = 45 THEN 0 - DigitsValue(IntBody(str)) ELSE DigitsValue(IntBody(str))

\* The sort key: int(os.path.basename(f).split('.')[0])
SortKey(name) == IntValue(NamePrefix(name))

\* Position at which a stable sort places a new last element: after every
\* element whose key is not greater
RECURSIVE InsertByKey(_, _)
InsertByKey(sorted, name) ==
    IF Len(sorted) = 0 THEN << name >>
    ELSE IF SortKey(sorted[Len(sorted)]) <= SortKey(name) THEN Append(sorted, name)
    ELSE Append(InsertByKey(SubSeq(sorted, 1, Len(sorted) - 1), name),
                sorted[Len(sorted)])

\* scan_files without the sort: listing order
SortByKey_ListingOrder(files) == files

\* list.sort(key=...): ascending by key, stable
RECURSIVE SortByKey(_)
SortByKey(files) ==
    IF Len(files) = 0 THEN << >>
    ELSE InsertByKey(SortByKey(SubSeq(files, 1, Len(files) - 1)), files[Len(files)])

\* list.index(x): 0-based position of the first element equal to x
IndexOf(files, x) == Least({i \in 0..(Len(files) - 1) : At(files, i) = x})

---------------------------------------------------------------------------
(* Strategy B: one iteration of the entry loop *)

PAYLOAD_MIN == 10

\* What the code does with one entry body, up to the publish step
EntryMessage(body) ==
    LET msg_data == IF Len(body) > 0 /\ At(body, 0) = TERM_MARKER
                    THEN From(body, 1) ELSE body
        payload  == extract_payload_from_erlang(msg_data)
    IN  IF Len(payload) > PAYLOAD_MIN
        THEN LET decoded == DecodeStrict(clean_message_content(payload))
             IN  IF decoded.ok /\ is_valid_content(decoded.str)
                 THEN [ok |-> TRUE, content |-> decoded.str]
                 ELSE [ok |-> FALSE, content |-> << >>]
        ELSE [ok |-> FALSE, content |-> << >>]

\* The entry loop without "if pos + size > len(file_data): break"
EntryOutcome_NoTruncationCheck(data, p) ==
    LET n == Len(data)
        none == << >>
    IN  IF ~(p < n)
            THEN [kind |-> "end", pos |-> p, hi |-> -1, body |-> -1, content |-> none]
        ELSE IF p + ENTRY_HEADER_LEN > n
            THEN [kind |-> "short", pos |-> p, hi |-> -1, body |-> -1, content |-> none]
        ELSE LET size == FromBytesBig(Slice(data, p, p + 4))
                 q    == p + ENTRY_HEADER_LEN
             IN  IF size = 0 \/ size > MAX_ENTRY_SIZE
                     THEN [kind |-> "resync", pos |-> q, hi |-> p + 4, body |-> -1,
                           content |-> none]
                 ELSE LET m == EntryMessage(Slice(data, q, q + size))
                      IN  [kind |-> IF m.ok THEN "message" ELSE "skip",
                           pos |-> q + size,
                           hi |-> Max(p + 4, q + size - 1),
                           body |-> size,
                           content |-> m.content]

\* One pass through the body of "while pos < len(file_data)", from cursor p:
\*   kind  end | short | resync | truncated | skip | message
\*   pos   the cursor afterwards
\*   hi    the highest index read (-1: nothing was read)
\*   body  the length of the body slice taken (-1: none)
EntryOutcome(data, p) ==
    LET n == Len(data)
        none == << >>
    IN  IF ~(p < n)
            THEN [kind |-> "end", pos |-> p, hi |-> -1, body |-> -1, content |-> none]
        ELSE IF p + ENTRY_HEADER_LEN > n
            THEN [kind |-> "short", pos |-> p, hi |-> -1, body |-> -1, content |-> none]
        ELSE LET size == FromBytesBig(Slice(data, p, p + 4))
                 q    == p + ENTRY_HEADER_LEN
             IN  IF size = 0 \/ size > MAX_ENTRY_SIZE
                     THEN [kind |-> "resync", pos |-> q, hi |-> p + 4, body |-> -1,
                           content |-> none]
                 ELSE IF q + size > n
                     THEN [kind |-> "truncated", pos |-> q, hi |-> p + 4, body |-> -1,
                           content |-> none]
                 ELSE LET m == EntryMessage(Slice(data, q, q + size))
                      IN  [kind |-> IF m.ok THEN "message" ELSE "skip",
                           pos |-> q + size,
                           hi |-> Max(p + 4, q + size - 1),
                           body |-> size,
                           content |-> m.content]

\* 'application/json' if content_str.strip().startswith('{') else 'text/plain'
ContentType(content_str) ==
    LET t == StrStrip(content_str)
    IN  IF Len(t) > 0 /\ t[1] = LBRACE THEN "application/json" ELSE "text/plain"

---------------------------------------------------------------------------
(* Strategy A: the marker lists and one iteration of the pairing loop *)

\* A set of integers as an ascending sequence
RECURSIVE Ascending(_)
Ascending(S) ==
    IF S = {} THEN << >> ELSE << Least(S) >> \o Ascending(S \ {Least(S)})

\* for i in range(len(data) - 4): tag byte followed by three zero bytes
MarkerPositions(data, tag) ==
    Ascending({i \in 0..(Len(data) - 5) :
                /\ At(data, i) = tag
                /\ At(data, i + 1) = 0
                /\ At(data, i + 2) = 0
                /\ At(data, i + 3) = 0})

\* The first end position greater than start_pos, -1 for None
NextEnd(ends, start_pos) ==
    LET later == {k \in 1..Len(ends) : ends[k] > start_pos}
    IN  IF later = {} THEN -1 ELSE ends[Least(later)]

\* The body of "for i, start_pos in enumerate(start_positions)" up to the publish step
MarkerOutcome(data, start_pos, ends) ==
    LET next_end_pos == NextEnd(ends, start_pos)
        json_start   == Find(data, LBRACE, start_pos)
        json_end     == RFind2(data, RBRACE, RBRACE, json_start, next_end_pos)
    IN  IF /\ next_end_pos >= 0
           /\ json_start > start_pos
           /\ json_start < next_end_pos
           /\ json_end > json_start
        THEN [ok |-> TRUE,
              content |-> DecodeReplace(Slice(data, json_start, json_end + 2))]
        ELSE [ok |-> FALSE, content |-> << >>]

---------------------------------------------------------------------------
(* Inputs: file names, segment files, configurations *)

MaxFiles == 2        \* directory entries
MaxRuns == 2         \* invocations of the program over the same directory
MaxFailures == 1     \* basic_publish calls that raise, per run
MaxLimit == 2        \* greatest --message-limit

N1 == << 49, 46, 113, 115 >>                \* "1.qs"
N01 == << 48, 49, 46, 113, 115 >>           \* "01.qs"
N2 == << 50, 46, 113, 115 >>                \* "2.qs"
N10 == << 49, 48, 46, 113, 115 >>           \* "10.qs"
NBad == << 97, 98, 99, 46, 113, 115 >>      \* "abc.qs"
NTxt == << 51, 46, 116, 120, 116 >>         \* "3.txt"

Names == << N1, N01, N2, N10, NBad, NTxt >>

Zeros(n) == Rep(0, n)
Spaces(n) == Rep(32, n)

\* n.to_bytes(4, 'big')
U32(n) == << n \div 16777216, (n \div 65536) % 256, (n \div 256) % 256, n % 256 >>

\* Size(4) + Flags(1) + CRC16(2) + Reserved(1)
EntryHeader(size) == U32(size) \o << 0, 0, 0, 0 >>

\* BINARY_EXT: tag, 4-byte length, body
Binary(body) == << BINARY_EXT >> \o U32(Len(body)) \o body

Entry(body) == EntryHeader(Len(body)) \o body

\* MAP_EXT with arity 0: the bytes the end marker of strategy A matches
EmptyMap == << END_TAG, 0, 0, 0, 0 >>

JsonAB(d) == << 123, 34, 97, 34, 58, 123, 34, 98, 34, 58, 48 + d, 125, 125 >>  \* {"a":{"b":d}}
JsonId1 == << 123, 34, 105, 100, 34, 58, 49, 125 >>                            \* {"id":1}
JsonId123 == << 123, 34, 105, 100, 34, 58, 49, 50, 51, 125 >>                  \* {"id":123}

\* An entry both strategies recover: marker, binary, empty map
GoodEntry(d) == Entry(<< TERM_MARKER >> \o Binary(JsonAB(d)) \o EmptyMap)

Header == Zeros(HEADER_LEN)

FileOne == Header \o GoodEntry(1)
FileTwo == Header \o GoodEntry(1) \o GoodEntry(2)

\* A zero-size header, an entry of binary noise, a good entry, half a header
FileMixed ==
    Header \o EntryHeader(0) \o Entry(<< TERM_MARKER >> \o Binary(Zeros(12)))
           \o GoodEntry(4) \o << 0, 0, 0, 9 >>

\* One entry of size 50 wrapping a binary that holds the JSON text: with the
\* 0x83 marker and the text padded with spaces inside the binary; without the
\* marker, the binary holding the text alone and the entry padded after it
FileId1Spaces == Header \o Entry(<< TERM_MARKER >> \o Binary(JsonId1 \o Spaces(36)))
FileId1Bare == Header \o Entry(Binary(JsonId1) \o Zeros(37))
FileId123 == Header \o Entry(<< TERM_MARKER >> \o Binary(JsonId123 \o Spaces(34)))

Unreadable == << -1 >>      \* open() or read() raises

FileLib == << FileOne, FileTwo, FileMixed, FileId1Spaces, FileId1Bare, FileId123,
              Unreadable >>

\* The k-th assignment of library files to names
Layout(k) ==
    [name \in {Names[i] : i \in 1..Len(Names)} |->
        LET i == CHOOSE j \in 1..Len(Names) : Names[j] = name
        IN  FileLib[((i + k) % Len(FileLib)) + 1]]

\* Sequences of at most n distinct names
RECURSIVE Listings(_)
Listings(n) ==
    IF n = 0 THEN {<< >>}
    ELSE LET shorter == Listings(n - 1)
         IN  shorter \cup
             {Append(l, Names[i]) : l \in {x \in shorter : Len(x) = n - 1},
                                    i \in 1..Len(Names)}

DistinctListings(n) ==
    {l \in Listings(n) : \A i, j \in 1..Len(l) : i # j => l[i] # l[j]}

Configs ==
    [dry_run : BOOLEAN, file_limit : 0..(MaxFiles - 1), message_limit : 0..MaxLimit,
     strategy : {"A", "B"}]

---------------------------------------------------------------------------
(* The process *)

RunLocalInit ==
    /\ pc = "start"
    /\ connected = FALSE
    /\ qs_files = << >>
    /\ fidx = 0
    /\ file_data = << >>
    /\ pos = 0
    /\ start_positions = << >>
    /\ end_positions = << >>
    /\ messages_published = 0
    /\ total_published = 0
    /\ sink = << >>
    /\ recovered = << >>
    /\ opened = << >>
    /\ hiRead = -1
    /\ bodyLen = -1
    /\ connects = 0
    /\ pubCalls = 0
    /\ failures = 0

Init ==
    /\ config \in Configs
    /\ listing \in DistinctListings(MaxFiles)
    /\ disk \in {Layout(k) : k \in 1..Len(FileLib)}
    /\ RunLocalInit
    /\ reports = << >>
    /\ fn_in = << >>
    /\ fn_out = << >>

\* __init__: connect unless dry_run
Construct ==
    /\ pc = "start"
    /\ pc' = "scan"
    /\ connected' = ~config.dry_run
    /\ connects' = IF config.dry_run THEN connects ELSE connects + 1
    /\ UNCHANGED << config, listing, disk, qs_files, fidx, file_data, pos,
                    start_positions, end_positions, messages_published,
                    total_published, sink, recovered, opened, hiRead, bodyLen,
                    pubCalls, failures, reports, fn_in, fn_out >>

\* connect_to_rabbitmq raises: "Failed to connect", sys.exit(1)
ConnectFails ==
    /\ pc = "start"
    /\ ~config.dry_run
    /\ pc' = "exit"
    /\ connects' = connects + 1
    /\ UNCHANGED << config, listing, disk, connected, qs_files, fidx, file_data, pos,
                    start_positions, end_positions, messages_published,
                    total_published, sink, recovered, opened, hiRead, bodyLen,
                    pubCalls, failures, reports, fn_in, fn_out >>

\* scan_files: keep the '.qs' names, sort them by int(prefix).  A prefix that
\* int() rejects raises ValueError out of sort, scan_files and main.
ScanFiles ==
    /\ pc = "scan"
    /\ LET found == SelectSeq(listing, EndsWithQs)
       IN  IF \A i \in 1..Len(found) : IntParses(NamePrefix(found[i]))
           THEN /\ qs_files' = SortByKey(found)
                /\ pc' = "loop"
           ELSE /\ qs_files' = found
                /\ pc' = "crashed"
    /\ UNCHANGED << config, listing, disk, connected, fidx, file_data, pos,
                    start_positions, end_positions, messages_published,
                    total_published, sink, recovered, opened, hiRead, bodyLen,
                    connects, pubCalls, failures, reports, fn_in, fn_out >>

\* process_files leaves its loop: prints "Total messages published"
Finish(total, why, nfail, npub) ==
    /\ pc' = "cleanup"
    /\ total_published' = total
    /\ fidx' = fidx
    /\ reports' = Append(reports,
                         [dry_run |-> config.dry_run, total |-> total, stopped |-> why,
                          failures |-> nfail, pubCalls |-> npub, connects |-> connects])

\* The extraction returns count: total_published += count, the message limit check
Return(count, nfail, npub) ==
    LET total == total_published + count
    IN  IF config.message_limit > 0 /\ total >= config.message_limit
        THEN Finish(total, "message_limit", nfail, npub)
        ELSE /\ pc' = "loop"
             /\ total_published' = total
             /\ fidx' = fidx + 1
             /\ reports' = reports

\* The file limit check with >= for >
OverFileLimit_OffByOne(files, qs_file, file_limit) ==
    file_limit > 0 /\ Len(Slice(files, 0, IndexOf(files, qs_file) + 1)) >= file_limit

\* The file limit check at the head of the for loop
OverFileLimit(files, qs_file, file_limit) ==
    file_limit > 0 /\ Len(Slice(files, 0, IndexOf(files, qs_file) + 1)) > file_limit

\* One pass through the head of "for qs_file in self.qs_files": the end of the
\* list, the file limit, or open() and read() of the next file
NextFile ==
    /\ pc = "loop"
    /\ IF fidx >= Len(qs_files)
       THEN /\ Finish(total_published, "exhausted", failures, pubCalls)
            /\ UNCHANGED << opened, file_data, pos, start_positions, end_positions,
                            messages_published >>
       ELSE IF OverFileLimit(qs_files, At(qs_files, fidx), config.file_limit)
       THEN /\ Finish(total_published, "file_limit", failures, pubCalls)
            /\ UNCHANGED << opened, file_data, pos, start_positions, end_positions,
                            messages_published >>
       ELSE LET qs_file == At(qs_files, fidx)
                bytes   == disk[qs_file]
            IN  /\ opened' = Append(opened, qs_file)
                /\ IF bytes = Unreadable
                   THEN /\ Return(0, failures, pubCalls)
                        /\ UNCHANGED << file_data, pos, start_positions, end_positions,
                                        messages_published >>
                   ELSE /\ messages_published' = 0
                        /\ UNCHANGED << total_published, fidx, reports >>
                        /\ IF config.strategy = "B"
                           THEN /\ file_data' = bytes
                                /\ pos' = HEADER_LEN
                                /\ pc' = "entries"
                                /\ UNCHANGED << start_positions, end_positions >>
                           ELSE /\ file_data' = From(bytes, HEADER_LEN)
                                /\ pos' = 0
                                /\ start_positions' =
                                       MarkerPositions(From(bytes, HEADER_LEN), BINARY_EXT)
                                /\ end_positions' =
                                       MarkerPositions(From(bytes, HEADER_LEN), END_TAG)
                                /\ pc' = "markers"
    /\ UNCHANGED << config, listing, disk, connected, qs_files, sink, recovered,
                    hiRead, bodyLen, connects, pubCalls, failures, fn_in, fn_out >>

\* The message limit check after "messages_published += 1" in the entry loop
HitMessageLimit(published, message_limit) ==
    message_limit > 0 /\ published >= message_limit

\* The counter incremented inside "if not self.config.dry_run"
CountPublished_LiveOnly(published, dry_run) ==
    IF dry_run THEN published ELSE published + 1

\* What the publish step does to the local counter: basic_publish unless
\* dry_run, then messages_published += 1
CountPublished(published, dry_run) == published + 1

\* Strategy B: one iteration of the entry loop, basic_publish returning
EntryStep ==
    /\ pc = "entries"
    /\ LET o == EntryOutcome(file_data, pos)
       IN  /\ hiRead' = o.hi
           /\ bodyLen' = o.body
           /\ pos' = o.pos
           /\ IF o.kind \in {"end", "short", "truncated"}
              THEN /\ Return(messages_published, failures, pubCalls)
                   /\ UNCHANGED << messages_published, sink, recovered, pubCalls >>
              ELSE IF o.kind \in {"resync", "skip"}
              THEN UNCHANGED << pc, messages_published, total_published, fidx, sink,
                                recovered, pubCalls, reports >>
              ELSE LET published == CountPublished(messages_published, config.dry_run)
                       npub      == IF config.dry_run THEN pubCalls ELSE pubCalls + 1
                   IN  /\ pubCalls' = npub
                       /\ sink' = IF config.dry_run THEN sink
                                  ELSE Append(sink, [body |-> o.content,
                                                     content_type |-> ContentType(o.content)])
                       /\ recovered' = Append(recovered, o.content)
                       /\ messages_published' = published
                       /\ IF HitMessageLimit(published, config.message_limit)
                          THEN Return(published, failures, npub)
                          ELSE UNCHANGED << pc, total_published, fidx, reports >>
    /\ UNCHANGED << config, listing, disk, connected, qs_files, file_data,
                    start_positions, end_positions, opened, connects, failures,
                    fn_in, fn_out >>

\* Strategy B: basic_publish raises.  Only UnicodeDecodeError is caught around
\* it; the exception reaches "except Exception" of the extraction, which
\* returns 0.
EntryPublishRaises ==
    /\ pc = "entries"
    /\ ~config.dry_run
    /\ failures < MaxFailures
    /\ LET o == EntryOutcome(file_data, pos)
       IN  /\ o.kind = "message"
           /\ hiRead' = o.hi
           /\ bodyLen' = o.body
           /\ pos' = o.pos
    /\ pubCalls' = pubCalls + 1
    /\ failures' = failures + 1
    /\ Return(0, failures + 1, pubCalls + 1)
    /\ UNCHANGED << config, listing, disk, connected, qs_files, file_data,
                    start_positions, end_positions, messages_published, sink,
                    recovered, opened, connects, fn_in, fn_out >>

\* Strategy A: one iteration of the pairing loop, basic_publish returning; past
\* the last start marker the extraction returns its counter
MarkerStep ==
    /\ pc = "markers"
    /\ IF pos >= Len(start_positions)
       THEN /\ Return(messages_published, failures, pubCalls)
            /\ UNCHANGED << pos, messages_published, sink, recovered, pubCalls >>
       ELSE LET o == MarkerOutcome(file_data, At(start_positions, pos), end_positions)
            IN  /\ pos' = pos + 1
                /\ UNCHANGED << pc, total_published, fidx, reports >>
                /\ IF o.ok
                   THEN /\ pubCalls' = IF config.dry_run THEN pubCalls ELSE pubCalls + 1
                        /\ sink' = IF config.dry_run THEN sink
                                   ELSE Append(sink, [body |-> o.content,
                                                      content_type |-> "application/json"])
                        /\ recovered' = Append(recovered, o.content)
                        /\ messages_published' =
                               CountPublished(messages_published, config.dry_run)
                   ELSE UNCHANGED << pubCalls, sink, recovered, messages_published >>
    /\ UNCHANGED << config, listing, disk, connected, qs_files, file_data,
                    start_positions, end_positions, opened, hiRead, bodyLen, connects,
                    failures, fn_in, fn_out >>

\* Strategy A: basic_publish raises.  "except Exception" around the iteration
\* prints the error and continues with the next start marker.
MarkerPublishRaises ==
    /\ pc = "markers"
    /\ ~config.dry_run
    /\ failures < MaxFailures
    /\ pos < Len(start_positions)
    /\ MarkerOutcome(file_data, At(start_positions, pos), end_positions).ok
    /\ pos' = pos + 1
    /\ pubCalls' = pubCalls + 1
    /\ failures' = failures + 1
    /\ UNCHANGED << config, listing, disk, pc, connected, qs_files, fidx, file_data,
                    start_positions, end_positions, messages_published,
                    total_published, sink, recovered, opened, hiRead, bodyLen,
                    connects, reports, fn_in, fn_out >>

\* cleanup: close the connection
Cleanup ==
    /\ pc = "cleanup"
    /\ pc' = "done"
    /\ connected' = FALSE
    /\ UNCHANGED << config, listing, disk, qs_files, fidx, file_data, pos,
                    start_positions, end_positions, messages_published,
                    total_published, sink, recovered, opened, hiRead, bodyLen,
                    connects, pubCalls, failures, reports, fn_in, fn_out >>

\* The program is run again over the same directory, with or without --dry-run
RunAgain ==
    /\ pc = "done"
    /\ Len(reports) < MaxRuns
    /\ \E d \in BOOLEAN : config' = [config EXCEPT !.dry_run = d]
    /\ pc' = "start"
    /\ connected' = FALSE
    /\ qs_files' = << >>
    /\ fidx' = 0
    /\ file_data' = << >>
    /\ pos' = 0
    /\ start_positions' = << >>
    /\ end_positions' = << >>
    /\ messages_published' = 0
    /\ total_published' = 0
    /\ sink' = << >>
    /\ recovered' = << >>
    /\ opened' = << >>
    /\ hiRead' = -1
    /\ bodyLen' = -1
    /\ connects' = 0
    /\ pubCalls' = 0
    /\ failures' = 0
    /\ UNCHANGED << listing, disk, reports, fn_in, fn_out >>

Next ==
    \/ Construct
    \/ ConnectFails
    \/ ScanFiles
    \/ NextFile
    \/ EntryStep
    \/ EntryPublishRaises
    \/ MarkerStep
    \/ MarkerPublishRaises
    \/ Cleanup

Spec == Init /\ [][Next]_vars

\* Two runs over the same directory
InitTwice ==
    /\ Init
    /\ \A i \in 1..Len(listing) : listing[i] \in {N2, N10}
    /\ config.file_limit \in {0, 1}
    /\ config.message_limit \in {0, MaxLimit}

NextTwice ==
    \/ Next
    \/ RunAgain

SpecTwice == InitTwice /\ [][NextTwice]_vars

---------------------------------------------------------------------------
(* Properties of the pipeline *)

Str(bytes) == DecodeStrict(bytes).str

RunOver == pc \in {"cleanup", "done"}
Scanned == pc \in {"loop", "entries", "markers", "cleanup", "done"}

\* The directory holds one segment file, with the given content, and it was processed
OnlyFile(content) ==
    /\ Len(qs_files) = 1
    /\ disk[qs_files[1]] = content
    /\ opened = qs_files

C5_TotalWithinLimit ==
    config.message_limit > 0 => Len(recovered) <= config.message_limit

\* The '.qs' names of the listing whose prefix is an integer
ValidNames ==
    SelectSeq(listing, LAMBDA n : EndsWithQs(n) /\ IntParses(NamePrefix(n)))

\* C6 as stated: a '.qs' name without an integer prefix is left out, the
\* other files are cataloged, and the run does not abort
C6_InvalidNameSkipped ==
    pc \notin {"start", "scan", "exit"} =>
        /\ pc # "crashed"
        /\ \A i \in 1..Len(ValidNames) :
               \E j \in 1..Len(qs_files) : qs_files[j] = ValidNames[i]

AllIntegerNames == \A i \in 1..Len(listing) :
    EndsWithQs(listing[i]) => IntParses(NamePrefix(listing[i]))

DistinctKeys == \A i, j \in 1..Len(qs_files) :
    i # j => SortKey(qs_files[i]) # SortKey(qs_files[j])

\* C7 (as amended): for names of the form <integer>.qs, whatever the listing
\* order, scan_files yields the '.qs' names ordered by ascending integer value,
\* names of equal value in listing order, and process_files opens them in
\* that order; the sequence numbers of the opened files are ascending, and
\* strictly ascending when no two names denote the same integer.
C7_AscendingOrder ==
    (Scanned /\ AllIntegerNames) =>
        /\ Len(qs_files) = Len(SelectSeq(listing, EndsWithQs))
        /\ \A i \in 1..Len(listing) :
               EndsWithQs(listing[i]) => \E j \in 1..Len(qs_files) : qs_files[j] = listing[i]
        /\ \A i, j \in 1..Len(qs_files) :
               i < j => SortKey(qs_files[i]) <= SortKey(qs_files[j])
        /\ DistinctKeys =>
               \A i, j \in 1..Len(qs_files) :
                   i < j => SortKey(qs_files[i]) < SortKey(qs_files[j])
        /\ opened = SubSeq(qs_files, 1, Len(opened))

C7_Witness ==
    /\ pc = "done"
    /\ listing = << N10, N2 >>
    /\ opened = << N2, N10 >>

\* C7 as stated: the sequence numbers are strictly ascending
C7_StrictlyAscending ==
    (Scanned /\ AllIntegerNames) =>
        \A i, j \in 1..Len(qs_files) :
            i < j => SortKey(qs_files[i]) < SortKey(qs_files[j])

MessageLimitHit ==
    config.message_limit > 0 /\ total_published >= config.message_limit

C8_DryRun ==
    /\ config.dry_run =>
           /\ connects = 0
           /\ ~connected
           /\ pubCalls = 0
           /\ sink = << >>
    /\ \A i, j \in 1..Len(reports) :
           (reports[i].dry_run /\ (reports[j].dry_run \/ reports[j].failures = 0)) =>
               reports[i].total = reports[j].total

C8_Witness ==
    /\ Len(reports) = 2
    /\ reports[1].dry_run
    /\ ~reports[2].dry_run
    /\ reports[2].failures = 0
    /\ reports[2].pubCalls = 2
    /\ reports[1].total = 2

---------------------------------------------------------------------------
(* Strategy B over arbitrary buffers: one file, any length, any header *)

MaxBody == 2         \* body bytes after each of the two generated headers

\* Size fields: 0, 1, 2, 256, 10 MiB, 10 MiB + 1, 2^24, 2^32 - 1
SizeWords ==
    { << 0, 0, 0, 0 >>, << 0, 0, 0, 1 >>, << 0, 0, 0, 2 >>, << 0, 0, 1, 0 >>,
      << 0, 160, 0, 0 >>, << 0, 160, 0, 1 >>, << 1, 0, 0, 0 >>,
      << 255, 255, 255, 255 >> }

\* A header with the given size field and n body bytes after it
Chunks == {w \o << 0, 0, 0, 0 >> \o Rep(1, n) : w \in SizeWords, n \in 0..MaxBody}

Prefixes(s) == {SubSeq(s, 1, k) : k \in 0..Len(s)}

\* Files shorter than the 64-byte header, every prefix of a header followed
\* by two chunks, and two files that hold messages
DecodeBuffers ==
    {Zeros(0), Zeros(63)}
        \cup UNION {Prefixes(Header \o c1 \o c2) : c1 \in Chunks, c2 \in Chunks}
        \cup {FileTwo, FileMixed}

InitDecode ==
    /\ config \in [dry_run : BOOLEAN, file_limit : {0}, message_limit : {0},
                   strategy : {"B"}]
    /\ listing = << N1 >>
    /\ disk \in {[name \in {N1} |-> buffer] : buffer \in DecodeBuffers}
    /\ RunLocalInit
    /\ reports = << >>
    /\ fn_in = << >>
    /\ fn_out = << >>

NextDecode ==
    \/ Construct
    \/ ConnectFails
    \/ ScanFiles
    \/ NextFile
    \/ EntryStep
    \/ EntryPublishRaises
    \/ Cleanup

SpecDecode == InitDecode /\ [][NextDecode]_vars

\* The size field of the header at the cursor, when a whole header is there
AtHeader == pc = "entries" /\ pos + ENTRY_HEADER_LEN <= Len(file_data)
HeaderSize == FromBytesBig(Slice(file_data, pos, pos + 4))

\* C3: every index an iteration of the entry loop reads (the size bytes, the
\* flags byte, the body slice) is below the buffer length, and a body slice
\* ends at the cursor, inside the buffer; a header with size = 0 moves the
\* cursor by exactly 8 and reads no body; a header whose size exceeds the
\* bytes left ends the loop without a body slice.
C3_BoundsSafety ==
    /\ [](/\ hiRead < Len(file_data)
          /\ bodyLen >= 0 => (bodyLen <= pos - HEADER_LEN - ENTRY_HEADER_LEN
                              /\ pos <= Len(file_data)))
    /\ [][(AtHeader /\ HeaderSize = 0) =>
              (pos' = pos + 8 /\ bodyLen' = -1 /\ hiRead' = pos + 4 /\ pc' = "entries")]_vars
    /\ [][(AtHeader /\ HeaderSize > 0 /\ HeaderSize <= MAX_ENTRY_SIZE
              /\ pos + ENTRY_HEADER_LEN + HeaderSize > Len(file_data)) =>
              (bodyLen' = -1 /\ hiRead' = pos + 4 /\ pc' # "entries")]_vars

\* A header claimed more bytes than were left, and the loop has stopped
C3_Witness ==
    /\ pc = "loop"
    /\ fidx = 1
    /\ bodyLen = -1
    /\ hiRead = pos - 4
    /\ LET size == FromBytesBig(Slice(file_data, pos - 8, pos - 4))
       IN  size > 0 /\ size <= MAX_ENTRY_SIZE /\ pos + size > Len(file_data)

---------------------------------------------------------------------------
(* The pure functions, each applied once to an input drawn in Init *)

HarnessInit ==
    /\ config = [dry_run |-> TRUE, file_limit |-> 0, message_limit |-> 0,
                 strategy |-> "B"]
    /\ listing = << >>
    /\ disk = << >>
    /\ RunLocalInit
    /\ reports = << >>
    /\ fn_out = << >>

\* What a call of a pure function leaves alone: all but pc and fn_out
callKeeps ==
    << config, listing, disk, connected, qs_files, fidx, file_data, pos,
       start_positions, end_positions, messages_published, total_published, sink,
       recovered, opened, hiRead, bodyLen, connects, pubCalls, failures, reports,
       fn_in >>

---------------------------------------------------------------------------
(* ContentSanitizer on byte strings with braces, quotes and backslashes *)

MaxJsonLen == 5      \* bytes between the optional prefix and suffix

\* prefix{"a":{"b":"}\"}"}}suffix, the escaped quote written with one backslash
OneBackslashInput ==
    << 112, 114, 101, 102, 105, 120, 123, 34, 97, 34, 58, 123, 34, 98, 34,
       58, 34, 125, 92, 34, 125, 34, 125, 125, 115, 117, 102, 102, 105, 120 >>

\* prefix{"a":{"b":"}\\"}"}}suffix, with two backslash bytes
TwoBackslashInput ==
    << 112, 114, 101, 102, 105, 120, 123, 34, 97, 34, 58, 123, 34, 98, 34,
       58, 34, 125, 92, 92, 34, 125, 34, 125, 125, 115, 117, 102, 102, 105,
       120 >>

\* The bytes from index 6 up to (not including) the 7-byte suffix
WithoutAffixes(input) == Slice(input, 6, Len(input) - 6)

JsonAlphabet == {LBRACE, RBRACE, QUOTE, BACKSLASH, 97}

JsonBodies == UNION {[1..n -> JsonAlphabet] : n \in 0..MaxJsonLen}

CleanInputs ==
    {OneBackslashInput, TwoBackslashInput}
        \cup {pre \o body \o suf : pre \in {<< >>, << 112 >>}, body \in JsonBodies,
                                   suf \in {<< >>, << 115 >>}}

InitClean ==
    /\ HarnessInit
    /\ fn_in \in CleanInputs

ApplyClean ==
    /\ pc = "start"
    /\ pc' = "cleaned"
    /\ fn_out' = clean_message_content(fn_in)
    /\ UNCHANGED callKeeps

NextClean == ApplyClean

SpecClean == InitClean /\ [][NextClean]_vars

\* The string and escape state in front of each byte from index start on: a
\* byte is escaped when the byte before it is an unescaped backslash inside a
\* string; an unescaped quote enters or leaves a string
LexState(data, start) ==
    LET st[i \in start..Len(data)] ==
            IF i = start THEN [esc |-> FALSE, ins |-> FALSE]
            ELSE LET prev == st[i - 1]
                     b    == At(data, i - 1)
                 IN  [esc |-> b = BACKSLASH /\ prev.ins /\ ~prev.esc,
                      ins |-> IF b = QUOTE /\ ~prev.esc THEN ~prev.ins ELSE prev.ins]
    IN  st

\* The indices of the closing braces at which the depth, counted over the
\* braces that are neither escaped nor inside a string, is back at zero
BalancePoints(data, start) ==
    LET st == LexState(data, start)
        Structural(i, b) == At(data, i) = b /\ ~st[i].esc /\ ~st[i].ins
        Opened(i) == Cardinality({j \in start..i : Structural(j, LBRACE)})
        Closed(i) == Cardinality({j \in start..i : Structural(j, RBRACE)})
    IN  {i \in start..(Len(data) - 1) : Structural(i, RBRACE) /\ Opened(i) = Closed(i)}

\* C2 (amended): for input with a '{', the result starts at the first '{' and
\* ends with the first '}' at which the quote- and escape-aware depth is back
\* at zero, and runs to the end of the input when the depth never returns to
\* zero; the one-backslash input yields the text between prefix and suffix,
\* the two-backslash input yields everything from the first '{' on, suffix
\* included.
C2_BalancedSlice ==
    pc = "cleaned" =>
        LET json_start == Find(fn_in, LBRACE, 0)
            points     == BalancePoints(fn_in, json_start)
        IN  /\ json_start >= 0 =>
                fn_out = Slice(fn_in, json_start,
                               IF points = {} THEN Len(fn_in) ELSE Least(points) + 1)
            /\ fn_in = OneBackslashInput => fn_out = WithoutAffixes(OneBackslashInput)
            /\ fn_in = TwoBackslashInput => fn_out = From(TwoBackslashInput, 6)

\* Nested objects and an escaped quote: the slice stops at the balancing brace
C2_Witness ==
    /\ pc = "cleaned"
    /\ fn_in = OneBackslashInput
    /\ fn_out = WithoutAffixes(OneBackslashInput)
    /\ BalancePoints(fn_in, 6) # {}

\* C2 as stated: the two-backslash input yields the text without the suffix
C2_AsStated ==
    (pc = "cleaned" /\ fn_in = TwoBackslashInput) =>
        fn_out = WithoutAffixes(TwoBackslashInput)

---------------------------------------------------------------------------
(* TermPayloadExtractor on buffers that hold up to two BINARY_EXT terms *)

MaxGap == 1          \* bytes in front of, between and behind the terms

Printable15 == Rep(65, 15)
Printable40 == Rep(66, 40)

\* A 15-byte body that ends in the tag and length field of a 40-byte term
Overlap15 == Rep(65, 10) \o << BINARY_EXT >> \o U32(40)

\* Bodies: printable, all zero, exactly 10 and exactly 11 printable bytes,
\* too short, one that nests a whole term, one that overlaps the next term
PayloadBodies ==
    { Printable15, Printable40, Rep(67, 40), Rep(0, 15),
      Rep(65, 10) \o Rep(0, 5), Rep(65, 11) \o Rep(0, 4), Rep(65, 9),
      Binary(Rep(67, 15)) \o Rep(66, 20), Overlap15 }

\* Terms, 40 bare printable bytes, and a term cut off in its body
PayloadItems ==
    {Binary(body) : body \in PayloadBodies}
        \cup {Printable40, << BINARY_EXT >> \o U32(40) \o Rep(65, 20)}

Gaps == UNION {[1..n -> {0, BINARY_EXT}] : n \in 0..MaxGap}

ExtractInputs ==
    {g1 \o i1 \o g2 : g1 \in Gaps, i1 \in PayloadItems, g2 \in Gaps}
        \cup {g1 \o i1 \o g2 \o i2 \o g3 :
                 g1 \in Gaps, i1 \in PayloadItems, g2 \in Gaps,
                 i2 \in PayloadItems, g3 \in Gaps}

InitExtract ==
    /\ HarnessInit
    /\ fn_in \in ExtractInputs

ApplyExtract ==
    /\ pc = "start"
    /\ pc' = "extracted"
    /\ fn_out' = extract_payload_from_erlang(fn_in)
    /\ UNCHANGED callKeeps

NextExtract == ApplyExtract

SpecExtract == InitExtract /\ [][NextExtract]_vars

\* The visited candidates whose body passes the printable-byte check
Accepted(data) ==
    {p \in ScanVisits(data, 0) : LooksLikeContent(CandidateBody(data, p))}

\* C4: the result is the body of the longest candidate the scan visits that
\* passes the printable-byte check (the first of them when several are
\* longest) and is empty when none passes; when the scan visits exactly two
\* candidates, of lengths 15 and 40, and both pass, the result is the
\* 40-byte body, whichever of the two comes first.
C4_LargestVisited ==
    pc = "extracted" =>
        LET visited  == ScanVisits(fn_in, 0)
            accepted == Accepted(fn_in)
        IN  /\ accepted = {} => fn_out = << >>
            /\ accepted # {} =>
                \E p \in accepted :
                    /\ fn_out = CandidateBody(fn_in, p)
                    /\ \A q \in accepted :
                        /\ CandidateLen(fn_in, q) <= CandidateLen(fn_in, p)
                        /\ CandidateLen(fn_in, q) = CandidateLen(fn_in, p) => p <= q
            /\ ( /\ Cardinality(visited) = 2
                 /\ accepted = visited
                 /\ {CandidateLen(fn_in, p) : p \in visited} = {15, 40} ) =>
                    /\ Len(fn_out) = 40
                    /\ \E p \in visited : fn_out = CandidateBody(fn_in, p)

\* The 40-byte candidate comes first, the 15-byte one second; both pass
C4_Witness ==
    /\ pc = "extracted"
    /\ fn_in = Binary(Printable40) \o Binary(Printable15)
    /\ ScanVisits(fn_in, 0) = {0, 45}
    /\ Accepted(fn_in) = {0, 45}
    /\ fn_out = Printable40

---------------------------------------------------------------------------
(* ContentValidator on strings made of three runs of one character each *)

Alnum150 == Rep(97, 75) \o Rep(55, 75)

\* {"aaa...": "777..."}, 150 characters
JsonLike150 ==
    << LBRACE, QUOTE >> \o Rep(97, 70) \o << QUOTE, 58, 32, QUOTE >> \o Rep(55, 72)
        \o << QUOTE, RBRACE >>

\* a, 7, newline, space, {, NUL
ValidChars == {97, 55, 10, 32, LBRACE, 0}
EdgeLens == {0, 1, 3, 60}
CoreLens == {0, 6, 9, 10, 97, 100, 101, 150}

ValidInputs ==
    {Alnum150, JsonLike150}
        \cup {Rep(c1, n1) \o Rep(c2, n2) \o Rep(c3, n3) :
                 c1 \in ValidChars, n1 \in EdgeLens, c2 \in {97, 55}, n2 \in CoreLens,
                 c3 \in ValidChars, n3 \in EdgeLens}

InitValid ==
    /\ HarnessInit
    /\ fn_in \in ValidInputs

ApplyValid ==
    /\ pc = "start"
    /\ pc' = "validated"
    /\ fn_out' = is_valid_content(fn_in)
    /\ UNCHANGED callKeeps

NextValid == ApplyValid

SpecValid == InitValid /\ [][NextValid]_vars

NotNewline(c) == c \notin {10, 13}

\* Fewer than 70% of the first 200 characters are printable or \n \r \t
BelowSeventyPercent(text) ==
    LET window == SubSeq(text, 1, Min(200, Len(text)))
        good   == {i \in 1..Len(window) : PrintableOrNl(window[i])}
    IN  100 * Cardinality(good) < 70 * Len(window)

\* Purely alphanumeric once newlines and carriage returns are removed
AlnumWithoutNewlines(text) ==
    LET rest == SelectSeq(text, NotNewline)
    IN  Len(rest) > 0 /\ \A i \in 1..Len(rest) : IsAlnum(rest[i])

\* The same once leading and trailing whitespace is dropped first: every
\* character is alphanumeric, a newline, a carriage return, or whitespace with
\* only whitespace on one side of it; and some character is alphanumeric
AlnumInsideWhitespace(text) ==
    /\ \E i \in 1..Len(text) : IsAlnum(text[i])
    /\ \A i \in 1..Len(text) :
        \/ IsAlnum(text[i])
        \/ text[i] \in {10, 13}
        \/ /\ StrSpace(text[i])
           /\ \/ \A j \in 1..(i - 1) : StrSpace(text[j])
              \/ \A j \in (i + 1)..Len(text) : StrSpace(text[j])

\* C10 (amended): a string is rejected when it is shorter than 10
\* characters, or fewer than 70% of its first 200 characters are printable or
\* newline/carriage-return/tab, or it is longer than 100 characters and, with
\* leading and trailing whitespace stripped and newlines and carriage returns
\* removed, purely alphanumeric; every other string is accepted.
C10_ValidatorRules ==
    pc = "validated" =>
        (fn_out <=> ~( \/ Len(fn_in) < 10
                       \/ BelowSeventyPercent(fn_in)
                       \/ (Len(fn_in) > 100 /\ AlnumInsideWhitespace(fn_in)) ))

\* 150 letters and digits are rejected
C10_Witness ==
    /\ pc = "validated"
    /\ fn_in = Alnum150
    /\ fn_out = FALSE

\* C10 as stated: the alphanumeric rule looks at the string with only the
\* newlines and carriage returns removed, and every other string is accepted
C10_AsStated ==
    pc = "validated" =>
        (fn_out <=> ~( \/ Len(fn_in) < 10
                       \/ BelowSeventyPercent(fn_in)
                       \/ (Len(fn_in) > 100 /\ AlnumWithoutNewlines(fn_in)) ))

---------------------------------------------------------------------------
(* Both strategies over files built around the markers of strategy A *)

\* {}}
JsonShort == << LBRACE, RBRACE, RBRACE >>

\* The four bytes the marker loops compare
Tag(byte) == << byte, 0, 0, 0 >>

\* A start tag, {"a":{"b":1}} and an end tag that is the last four bytes
FileTagAtEnd == Header \o Binary(JsonAB(1)) \o Tag(END_TAG)

\* The same with one more byte behind the end tag
FileTagBeforeEnd == Header \o Binary(JsonAB(1)) \o EmptyMap

\* A start tag, {}} and an end tag
FileShortA == Header \o Binary(JsonShort) \o EmptyMap

\* A good entry and a start tag that is the last four bytes
FileStartAtEnd == Header \o GoodEntry(1) \o Tag(BINARY_EXT)

MarkerFiles ==
    { FileTagAtEnd, FileTagBeforeEnd, FileShortA, FileStartAtEnd, FileTwo,
      FileId1Spaces }

InitMarkers ==
    /\ config \in [dry_run : BOOLEAN, file_limit : {0}, message_limit : {0},
                   strategy : {"A", "B"}]
    /\ listing \in {<< N1 >>, << N1, N2 >>}
    /\ disk \in [{N1, N2} -> MarkerFiles]
    /\ RunLocalInit
    /\ reports = << >>
    /\ fn_in = << >>
    /\ fn_out = << >>

SpecMarkers == InitMarkers /\ [][Next]_vars

\* The indices at which the four tag bytes lie in data, up to the last four
TagOccurrences(data, byte) ==
    {i \in 0..(Len(data) - 4) : Slice(data, i, i + 4) = Tag(byte)}

Elements(seq) == {seq[k] : k \in 1..Len(seq)}

\* C11 as stated: every occurrence of the start tag and of the end tag in the
\* bytes after the header is recorded, an occurrence in the last four bytes
\* included.
C11_EveryTagRecorded ==
    pc = "markers" =>
        /\ TagOccurrences(file_data, BINARY_EXT) \subseteq Elements(start_positions)
        /\ TagOccurrences(file_data, END_TAG) \subseteq Elements(end_positions)

\* C12 as stated: whatever either strategy publishes or counts is content the
\* validator accepts.
C12_OnlyValidPublished ==
    /\ \A k \in 1..Len(recovered) : is_valid_content(recovered[k])
    /\ \A k \in 1..Len(sink) : is_valid_content(sink[k].body)

\* C14 as stated: when a live run is over, the reported total is the number
\* of basic_publish calls that returned, in either strategy.
C14_TotalCountsSuccesses ==
    (pc = "done" /\ ~config.dry_run) =>
        /\ total_published = Len(sink)
        /\ reports[Len(reports)].total = Len(sink)

---------------------------------------------------------------------------
(* ContentSanitizer on byte strings with braces, angle brackets and text *)

MaxTextLen == 4      \* bytes of an input

\* { } < > a space j t
TextAlphabet == {LBRACE, RBRACE, LT, GT, 97, 32, LETTER_J, END_TAG}

OrderInputs == UNION {[1..n -> TextAlphabet] : n \in 0..MaxTextLen}

InitOrder ==
    /\ HarnessInit
    /\ fn_in \in OrderInputs

ApplyOrder ==
    /\ pc = "start"
    /\ pc' = "ordered"
    /\ fn_out' = clean_message_content(fn_in)
    /\ UNCHANGED callKeeps

NextOrder == ApplyOrder

SpecOrder == InitOrder /\ [][NextOrder]_vars

Has(data, byte) == \E i \in 1..Len(data) : data[i] = byte
First(data, byte) == Least({i \in 0..(Len(data) - 1) : At(data, i) = byte})
Last(data, byte) == Greatest({i \in 0..(Len(data) - 1) : At(data, i) = byte})

\* Some '>' lies behind the first '<'
ClosedTag(data) ==
    Has(data, LT) /\ Has(data, GT) /\ Last(data, GT) > First(data, LT)

\* C13 (amended): with a '{' in the input the result is a non-empty slice
\* that starts at the first '{'; otherwise, with a '<' and a '>' somewhere
\* behind the first '<', the result is the slice from the first '<' to the
\* last '>' inclusive; an input with neither '{' nor '<', and also an input
\* without '{' whose first '<' has no '>' behind it, gets the result of the
\* plain-text trimming.
C13_PriorityOrder ==
    pc = "ordered" =>
        IF Has(fn_in, LBRACE)
            THEN /\ Len(fn_out) > 0
                 /\ fn_out = Slice(fn_in, First(fn_in, LBRACE),
                                   First(fn_in, LBRACE) + Len(fn_out))
        ELSE IF ClosedTag(fn_in)
            THEN fn_out = Slice(fn_in, First(fn_in, LT), Last(fn_in, GT) + 1)
        ELSE fn_out = CleanPlain(fn_in)

\* " a<a": a '<' with no '>' behind it goes through the plain-text trimming
C13_Witness ==
    /\ pc = "ordered"
    /\ fn_in = << 32, 97, LT, 97 >>
    /\ ~ClosedTag(fn_in)
    /\ fn_out = << 97, LT, 97 >>

\* C13 as stated: without '{' and with a '<', the result is always the slice
\* from the first '<' to the last '>' inclusive
C13_AsStated ==
    (pc = "ordered" /\ ~Has(fn_in, LBRACE) /\ Has(fn_in, LT)) =>
        /\ Has(fn_in, GT)
        /\ fn_out = Slice(fn_in, First(fn_in, LT), Last(fn_in, GT) + 1)

=============================================================================
